---- MODULE Spec2Model ----
(***************************************************************************)
(* Cross-Market dashboard (src/app.py): the store (four read-only tables), *)
(* the overview page (date-range check, bitcoin-id lookup, alignment       *)
(* query, all-null filter, base-100 normalization), the query runner      *)
(* (catalog selection, Run Query and its error handler) and the top-3 page *)
(* (get_top3, get_coin_display_names, date-range check, coin query).       *)
(*                                                                         *)
(* Text is a sequence of one-character strings, so that LOWER(), upper()   *)
(* and title() are computed.  A stored date is a record [day, time];       *)
(* SQLite's date() drops the time.  A cell of a result table is a record   *)
(* [k, n, d]: k = "null" (None / NaN), "num" (the rational n/d) or "inf".  *)
(***************************************************************************)
EXTENDS Integers, Sequences, FiniteSets, TLC

VARIABLES
    db_exists,          \* os.path.exists(DB_PATH)
    stop_persists,      \* the Streamlit build: a swallowed st.stop() is raised again
    crypto_prices,      \* table: sequence of [coin_id, date, price_usd]
    oil_prices,         \* table: sequence of [date, price]
    stock_prices,       \* table: sequence of [ticker, date, close]
    cryptocurrencies,   \* table: sequence of [id, name, symbol]
    cache,              \* st.cache_data of run_query: (sql, params) -> result
    fcache,             \* st.cache_data of the other cached functions: call -> value
    page,               \* the view rendered last ("none" before any render)
    query_log,          \* the statements executed against the store in this render
    messages,           \* the st.error / st.warning messages of this render
    outcome,            \* how this render ended
    start_date,         \* the chosen start of the range (a day)
    end_date,           \* the chosen end of the range (a day)
    btc_id,             \* overview: get_bitcoin_coin_id(), <<>> for None
    raw_df,             \* overview: rows returned by the alignment query
    df,                 \* overview: raw_df without its all-null rows
    sorted_df,          \* overview: df sorted by date, before normalization
    plot_df,            \* overview: sorted_df after normalization
    zero_div,           \* overview: columns whose normalization divided by 0
    top3,               \* top-3 page: get_top3()
    name_map,           \* top-3 page: get_coin_display_names(tuple(top3))
    display_labels,     \* top-3 page: the labels of the coin selector
    label_to_id,        \* top-3 page: dict(zip(display_labels, top3))
    coin,               \* top-3 page: the coin selected, <<>> for none
    cdf,                \* top-3 page: the price series of the selected coin
    selected_name,      \* query runner: the catalog query selected, "" for none
    result,             \* query runner: the table shown, <<>> for none
    conn_failures,      \* get_conn() calls of this render that found no file
    executions          \* per (sql, params): run_query executions so far, 2 for more

vars == <<db_exists, crypto_prices, oil_prices, stock_prices, cryptocurrencies,
          cache, fcache, page, query_log, messages, outcome, start_date,
          end_date, btc_id, raw_df, df, sorted_df, plot_df, zero_div, top3,
          name_map, display_labels, label_to_id, coin, cdf, stop_persists,
          selected_name, result, conn_failures, executions>>

store == <<db_exists, stop_persists, crypto_prices, oil_prices, stock_prices,
           cryptocurrencies>>

-----------------------------------------------------------------------------
(* Bounds of the model *)

\* rows in the three price tables together (overview inputs)
MaxRows == 2

\* the days of the calendar
Days == {1, 2}

\* times of day a stored date may carry
Times == {"00:00", "12:00"}

\* prices a row may carry besides NULL
Prices == {0, 1}

-----------------------------------------------------------------------------
(* Cells *)

NULL == [k |-> "null", n |-> 0, d |-> 1]

Num(v) == [k |-> "num", n |-> v, d |-> 1]

IsNull(c) == c.k = "null"

\* pandas float division x / y (no exception: 0/0 is NaN, x/0 is inf)
Divide(x, y) ==
    IF IsNull(x) \/ IsNull(y) THEN NULL
    ELSE IF y.n = 0 THEN (IF x.n = 0 THEN NULL ELSE [k |-> "inf", n |-> 0, d |-> 1])
    ELSE [k |-> x.k, n |-> x.n * y.d, d |-> x.d * y.n]

\* pandas x * 100
Times100(x) == IF x.k = "num" THEN [x EXCEPT !.n = x.n * 100] ELSE x

\* the cell is the number v
IsNumber(c, v) == c.k = "num" /\ c.n = v * c.d

-----------------------------------------------------------------------------
(* Text *)

LowerOf == [c \in {"A", "B", "C", "E", "H", "I", "N", "O", "T"} |->
              CASE c = "A" -> "a" [] c = "B" -> "b" [] c = "C" -> "c"
                [] c = "E" -> "e" [] c = "H" -> "h" [] c = "I" -> "i"
                [] c = "N" -> "n" [] c = "O" -> "o" [] c = "T" -> "t"]

UpperOf == [c \in {"a", "b", "c", "e", "h", "i", "n", "o", "t"} |->
              CASE c = "a" -> "A" [] c = "b" -> "B" [] c = "c" -> "C"
                [] c = "e" -> "E" [] c = "h" -> "H" [] c = "i" -> "I"
                [] c = "n" -> "N" [] c = "o" -> "O" [] c = "t" -> "T"]

IsLetter(c) == c \in DOMAIN LowerOf \/ c \in DOMAIN UpperOf

LowerChar(c) == IF c \in DOMAIN LowerOf THEN LowerOf[c] ELSE c

UpperChar(c) == IF c \in DOMAIN UpperOf THEN UpperOf[c] ELSE c

\* SQL LOWER(), str.lower()
Lower(s) == [i \in 1..Len(s) |-> LowerChar(s[i])]

\* str.upper()
Upper(s) == [i \in 1..Len(s) |-> UpperChar(s[i])]

\* str.title(): a letter that follows a non-letter is upper-cased, the others lower-cased
Title(s) ==
    [i \in 1..Len(s) |->
        IF i = 1 \/ ~IsLetter(s[i - 1]) THEN UpperChar(s[i]) ELSE LowerChar(s[i])]

\* SQL  s LIKE '%pat%'
Contains(s, pat) ==
    \E i \in 0..(Len(s) - Len(pat)) : \A j \in 1..Len(pat) : s[i + j] = pat[j]

-----------------------------------------------------------------------------
(* SQL helpers *)

\* SQLite date(x): the calendar date of a stored date
DateOf(ts) == ts.day

\* date(date) BETWEEN :sd AND :ed
Between(ts, sd, ed) == sd <= DateOf(ts) /\ DateOf(ts) <= ed

\* the indices of the rows of a table that satisfy P
RowsWhere(t, P(_)) == {i \in DOMAIN t : P(t[i])}

\* the value of column col of row i of table t; row 0 is the LEFT JOIN's missing row
CellAt(t, i, col) == IF i = 0 THEN NULL ELSE t[i][col]

\* ORDER BY: the sequences that list every element of S once and never put x
\* after y when <<x, y>> is in before; elements that before does not order (ties,
\* or no ORDER BY at all) come in any order
RECURSIVE Orderings(_, _)
Orderings(S, before) ==
    IF S = {} THEN {<<>>}
    ELSE UNION {{<<x>> \o r : r \in Orderings(S \ {x}, before)} :
                x \in {x \in S : \A y \in S : <<y, x>> \notin before}}

\* no LIMIT: the whole result
NoLimit(s, n) == s

\* LIMIT n
Limit(s, n) == IF Len(s) <= n THEN s ELSE SubSeq(s, 1, n)

\* x comes before y under ORDER BY ... DESC: greater first, NULLs last
DescBefore(x, y) ==
    /\ ~IsNull(x)
    /\ IsNull(y) \/ x.n * y.d > y.n * x.d

RECURSIVE SumCells(_, _, _)
SumCells(t, idx, col) ==
    IF idx = {} THEN 0
    ELSE LET i == CHOOSE i \in idx : TRUE
         IN  t[i][col].n + SumCells(t, idx \ {i}, col)

\* AVG(col) over the rows idx of t: NULLs are skipped, NULL when none is left
Avg(t, idx, col) ==
    LET nn == {i \in idx : ~IsNull(t[i][col])}
    IN  IF nn = {} THEN NULL
        ELSE [k |-> "num", n |-> SumCells(t, nn, col), d |-> Cardinality(nn)]

\* SELECT MIN(date(date)), MAX(date(date)) FROM t: <<>> stands for the NULL pair
DateRangeOf(t) ==
    IF t = <<>> THEN <<>>
    ELSE LET ds == {DateOf(t[i].date) : i \in DOMAIN t}
         IN  <<CHOOSE d \in ds : \A x \in ds : d <= x,
               CHOOSE d \in ds : \A x \in ds : d >= x>>

CoinIds(cp) == {cp[i].coin_id : i \in DOMAIN cp}

-----------------------------------------------------------------------------
(* Overview: get_bitcoin_coin_id's two queries *)

BITCOIN == <<"b", "i", "t", "c", "o", "i", "n">>

BTC == <<"b", "t", "c">>

\* SELECT DISTINCT coin_id ... WHERE LOWER(coin_id) LIKE '%bitcoin%' OR ... '%btc%' LIMIT 1
\* (no ORDER BY: any one of the matching ids); each result is a table of coin ids
BitcoinLikeResults(cp) ==
    LET m == {c \in CoinIds(cp) : Contains(Lower(c), BITCOIN) \/ Contains(Lower(c), BTC)}
    IN  IF m = {} THEN {<<>>} ELSE {<<c>> : c \in m}

\* SELECT coin_id, AVG(price_usd) AS avg_p ... GROUP BY coin_id ORDER BY avg_p DESC LIMIT n
AvgRankingResults(cp, n) ==
    LET groups == {[coin_id |-> c,
                    avg_p |-> Avg(cp, RowsWhere(cp, LAMBDA r : r.coin_id = c), "price_usd")] :
                   c \in CoinIds(cp)}
    IN  {Limit(f, n) :
            f \in Orderings(groups, {p \in groups \X groups : DescBefore(p[1].avg_p, p[2].avg_p)})}

-----------------------------------------------------------------------------
(* Overview: the alignment query and the passes over its result *)

SeriesCols == {"bitcoin_price", "oil_price", "sp500_close", "nifty_close"}

GSPC == <<"^", "G", "S", "P", "C">>

NSEI == <<"^", "N", "S", "E", "I">>

\* the all_dates CTE: SELECT DISTINCT date(date) ... BETWEEN :sd AND :ed, thrice, UNION
all_dates(cp, oil, st, sd, ed) ==
    {DateOf(cp[i].date) : i \in RowsWhere(cp, LAMBDA r : Between(r.date, sd, ed))}
    \cup {DateOf(oil[i].date) : i \in RowsWhere(oil, LAMBDA r : Between(r.date, sd, ed))}
    \cup {DateOf(st[i].date) : i \in RowsWhere(st, LAMBDA r : Between(r.date, sd, ed))}

\* LEFT JOIN (SELECT date(date) AS date, col FROM t WHERE P) x ON d.date = x.date:
\* the rows of t joined to calendar date d, or the missing row 0 when there is none
LeftJoin(t, P(_), d) ==
    LET m == RowsWhere(t, LAMBDA r : P(r) /\ DateOf(r.date) = d)
    IN  IF m = {} THEN {0} ELSE m

\* the joined rows, each named by its date and the row it takes from each subquery
JoinedRows(cp, oil, st, sd, ed, btc) ==
    UNION {
        {[date |-> d, cp |-> i, o |-> j, sp |-> k, ni |-> l] :
            i \in LeftJoin(cp, LAMBDA r : r.coin_id = btc, d),
            j \in LeftJoin(oil, LAMBDA r : TRUE, d),
            k \in LeftJoin(st, LAMBDA r : r.ticker = GSPC, d),
            l \in LeftJoin(st, LAMBDA r : r.ticker = NSEI, d)} :
        d \in all_dates(cp, oil, st, sd, ed)}

\* the SELECT list of the alignment query, for one joined row
Selected(cp, oil, st, j) ==
    [date          |-> j.date,
     bitcoin_price |-> CellAt(cp, j.cp, "price_usd"),
     oil_price     |-> CellAt(oil, j.o, "price"),
     sp500_close   |-> CellAt(st, j.sp, "close"),
     nifty_close   |-> CellAt(st, j.ni, "close")]

\* the tables the alignment query may return: ORDER BY d.date DESC
AlignmentResults(cp, oil, st, sd, ed, btc) ==
    LET joined == JoinedRows(cp, oil, st, sd, ed, btc)
    IN  {[i \in DOMAIN f |-> Selected(cp, oil, st, f[i])] :
            f \in Orderings(joined, {p \in joined \X joined : p[1].date > p[2].date})}

AllNull(r) == \A c \in SeriesCols : IsNull(r[c])

\* (a slip of the filter: .any(axis=1) for .all(axis=1))
DropAnyNull(t) == SelectSeq(t, LAMBDA r : \A c \in SeriesCols : ~IsNull(r[c]))

\* df[~(df[[...four columns...]].isnull().all(axis=1))]
DropAllNull(t) == SelectSeq(t, LAMBDA r : ~AllNull(r))

\* df.sort_values("date"): ascending, rows of one date in any order
SortedByDate(t) ==
    {[i \in DOMAIN f |-> t[f[i]]] :
        f \in Orderings(DOMAIN t, {p \in (DOMAIN t) \X (DOMAIN t) : t[p[1]].date < t[p[2]].date})}

\* plot_df[c].dropna(): the non-null cells of column c, in row order
DropNa(t, c) == SelectSeq([i \in DOMAIN t |-> t[i][c]], LAMBDA x : ~IsNull(x))

\* one turn of the normalization loop, for column c
NormalizeColumn(t, c) ==
    LET first == DropNa(t, c)
    IN  IF first # <<>>
        THEN [i \in DOMAIN t |-> [t[i] EXCEPT ![c] = Times100(Divide(@, first[1]))]]
        ELSE t

\* for c in plot_df.columns: ...
Normalized(t) ==
    NormalizeColumn(NormalizeColumn(NormalizeColumn(NormalizeColumn(t,
        "bitcoin_price"), "oil_price"), "sp500_close"), "nifty_close")

\* the columns whose division had a zero divisor
ZeroDivisors(t) == {c \in SeriesCols : DropNa(t, c) # <<>> /\ DropNa(t, c)[1].n = 0}

-----------------------------------------------------------------------------
(* The data-access layer: get_conn, run_query and st.cache_data *)

\* f with key k set to v
Put(f, k, v) == [x \in DOMAIN f \cup {k} |-> IF x = k THEN v ELSE f[x]]

\* a statement and its bound parameters, the key of run_query's cache
Query(sql, params) == <<sql, params>>

\* a call of a cached function, the key of its cache
Call(fn, args) == <<fn, args>>

\* the script's state while one render runs
Context(c, fc) ==
    [cache |-> c, fcache |-> fc, log |-> <<>>, msgs |-> <<>>, halted |-> FALSE,
     fails |-> 0, stopping |-> FALSE, runs |-> <<>>]

\* get_conn() when the file is missing: st.error(...) then st.stop().  Where a
\* stop requested earlier in this run is still pending, st.error raises it
\* again before the message is shown
ConnFailed(ctx) ==
    [ctx EXCEPT !.msgs = IF ctx.stopping THEN @ ELSE Append(@, "error: database not found"),
                !.halted = TRUE,
                !.fails = @ + 1,
                !.stopping = @ \/ stop_persists]

\* run_query without st.cache_data: get_conn and execute on every call
run_query_uncached(ctx, q, res) ==
    IF ~db_exists THEN ConnFailed(ctx)
    ELSE [ctx EXCEPT !.log = Append(@, q), !.runs = Append(@, q),
                     !.cache = Put(@, q, res)]

\* run_query(sql, params), res being what the store returns if the statement runs:
\* a memoized pair is answered from the cache; otherwise get_conn, execute, memoize
run_query(ctx, q, res) ==
    IF q \in DOMAIN ctx.cache THEN ctx
    ELSE IF ~db_exists THEN ConnFailed(ctx)
    ELSE [ctx EXCEPT !.log = Append(@, q), !.runs = Append(@, q),
                     !.cache = Put(@, q, res)]

\* run_query when what the store returns is any one of results: the contexts
\* the call may leave
run_query_any(ctx, q, results) ==
    IF q \in DOMAIN ctx.cache \/ ~db_exists THEN {run_query(ctx, q, <<>>)}
    ELSE {run_query(ctx, q, r) : r \in results}

\* with get_conn() as conn: pd.read_sql_query(sql, conn, params=...) outside run_query
read_sql_query(ctx, q) ==
    IF ~db_exists THEN ConnFailed(ctx)
    ELSE [ctx EXCEPT !.log = Append(@, q)]

\* the executions counted so far and those of runs, the count kept up to 2
RECURSIVE Counted(_, _)
Counted(ex, runs) ==
    IF runs = <<>> THEN ex
    ELSE LET n == Len(runs)
             before == Counted(ex, SubSeq(runs, 1, n - 1))
         IN  Put(before, runs[n],
                 IF runs[n] \in DOMAIN before /\ before[runs[n]] >= 1 THEN 2 ELSE 1)

\* st.error(text); st.stop()
ErrorStop(ctx, text) == [ctx EXCEPT !.msgs = Append(@, text), !.halted = TRUE]

-----------------------------------------------------------------------------
(* get_db_date_range *)

\* date(2022, 1, 1) and date.today() as days of the model's calendar
DefaultRange == <<1, 2>>

DateRangeQuery(table) == Query("SELECT MIN(date(date)) as mn, MAX(date(date)) as mx FROM", <<table>>)

\* one turn of the loop: try: run_query(...) except: pass  (the bare except also
\* catches the stop that get_conn raises)
ProbeTable(ctx, table, t) ==
    [run_query(ctx, DateRangeQuery(table), DateRangeOf(t)) EXCEPT !.halted = ctx.halted]

Min(S) == CHOOSE x \in S : \A y \in S : x <= y

Max(S) == CHOOSE x \in S : \A y \in S : x >= y

get_db_date_range(ctx) ==
    IF Call("get_db_date_range", <<>>) \in DOMAIN ctx.fcache THEN ctx
    ELSE LET c1 == ProbeTable(ctx, "crypto_prices", crypto_prices)
             c2 == ProbeTable(c1, "oil_prices", oil_prices)
             c3 == ProbeTable(c2, "stock_prices", stock_prices)
             ranges == {c3.cache[q] : q \in {q \in {DateRangeQuery("crypto_prices"),
                                                     DateRangeQuery("oil_prices"),
                                                     DateRangeQuery("stock_prices")} :
                                              q \in DOMAIN c3.cache /\ c3.cache[q] # <<>>}}
             value == IF ranges = {} THEN DefaultRange
                      ELSE <<Min({r[1] : r \in ranges}), Max({r[2] : r \in ranges})>>
         IN  [c3 EXCEPT !.fcache = Put(@, Call("get_db_date_range", <<>>), value)]

-----------------------------------------------------------------------------
(* get_bitcoin_coin_id *)

BitcoinLikeQuery == Query("SELECT DISTINCT coin_id ... LIKE '%bitcoin%' OR ... LIKE '%btc%' LIMIT 1", <<>>)

TopAvgQuery(n) == Query("SELECT coin_id, AVG(price_usd) AS avg_p ... ORDER BY avg_p DESC LIMIT", <<n>>)

\* the contexts a call of get_bitcoin_coin_id() may leave
get_bitcoin_coin_id(ctx) ==
    LET call == Call("get_bitcoin_coin_id", <<>>)
        fallback(c1) ==
            {IF c2.halted THEN c2
             ELSE [c2 EXCEPT !.fcache =
                     Put(@, call, IF c2.cache[TopAvgQuery(1)] = <<>> THEN <<>>
                                  ELSE <<c2.cache[TopAvgQuery(1)][1].coin_id>>)] :
             c2 \in run_query_any(c1, TopAvgQuery(1), AvgRankingResults(crypto_prices, 1))}
    IN  IF call \in DOMAIN ctx.fcache THEN {ctx}
        ELSE UNION {
                IF c1.halted THEN {c1}
                ELSE IF c1.cache[BitcoinLikeQuery] # <<>>
                THEN {[c1 EXCEPT !.fcache = Put(@, call, <<c1.cache[BitcoinLikeQuery][1]>>)]}
                ELSE fallback(c1) :
                c1 \in run_query_any(ctx, BitcoinLikeQuery, BitcoinLikeResults(crypto_prices))}

-----------------------------------------------------------------------------
(* PAGE 1 - Cross-Market Overview *)

AlignmentQuery(sd, ed, btc) == Query("WITH all_dates AS (...) SELECT ... ORDER BY d.date DESC", <<sd, ed, btc>>)

DistinctCoinsQuery == Query("SELECT DISTINCT coin_id FROM crypto_prices LIMIT 20", <<>>)

DistinctTickersQuery == Query("SELECT DISTINCT ticker FROM stock_prices", <<>>)

DebugRangeQuery(table) == Query("SELECT MIN(date(date)) mn, MAX(date(date)) mx FROM", <<table>>)

\* the "Debug info" expander of the empty-range warning: four run_query calls
DebugInfo(ctx) ==
    LET c1 == run_query(ctx, DebugRangeQuery("crypto_prices"), DateRangeOf(crypto_prices))
        c2 == IF c1.halted THEN c1
              ELSE run_query(c1, DebugRangeQuery("oil_prices"), DateRangeOf(oil_prices))
        c3 == IF c2.halted THEN c2
              ELSE run_query(c2, DebugRangeQuery("stock_prices"), DateRangeOf(stock_prices))
    IN  IF c3.halted THEN c3
        ELSE run_query(c3, DistinctTickersQuery,
                       {stock_prices[i].ticker : i \in DOMAIN stock_prices})

\* what a render leaves in the variables of the query runner when another
\* page is rendered
NoRunner ==
    /\ selected_name' = ""
    /\ result' = <<>>

\* a render whose statements delete the rows they read
RenderEndsDeleting(ctx) ==
    /\ cache' = ctx.cache
    /\ fcache' = ctx.fcache
    /\ query_log' = ctx.log
    /\ messages' = ctx.msgs
    /\ conn_failures' = ctx.fails
    /\ executions' = Counted(executions, ctx.runs)
    /\ crypto_prices' = IF ctx.log = <<>> THEN crypto_prices ELSE <<>>
    /\ UNCHANGED <<db_exists, stop_persists, oil_prices, stock_prices, cryptocurrencies>>

\* what every render leaves: the caches, the statements and messages of the
\* render, its failed connections, the executions of the process
RenderEnds(ctx) ==
    /\ cache' = ctx.cache
    /\ fcache' = ctx.fcache
    /\ query_log' = ctx.log
    /\ messages' = ctx.msgs
    /\ conn_failures' = ctx.fails
    /\ executions' = Counted(executions, ctx.runs)
    /\ UNCHANGED store

\* what a render leaves in the variables of the page that was not rendered
NoTop3 ==
    /\ top3' = <<>>
    /\ name_map' = <<>>
    /\ display_labels' = <<>>
    /\ label_to_id' = <<>>
    /\ coin' = <<>>
    /\ cdf' = <<>>

\* the end of an overview render
OverviewEnds(ctx, s, e, how, btc, raw, kept, sorted, plot, zd) ==
    /\ page' = "overview"
    /\ RenderEnds(ctx)
    /\ outcome' = how
    /\ start_date' = s
    /\ end_date' = e
    /\ btc_id' = btc
    /\ raw_df' = raw
    /\ df' = kept
    /\ sorted_df' = sorted
    /\ plot_df' = plot
    /\ zero_div' = zd
    /\ NoTop3
    /\ NoRunner

\* the alignment query has run and returned raw
OverviewTable(ctx, s, e, btc, raw) ==
    LET kept == DropAllNull(raw)
    IN  IF kept = <<>>
        THEN OverviewEnds(DebugInfo([ctx EXCEPT !.msgs = Append(@, "warning: no data found")]),
                          s, e, "no_data", btc, raw, kept, <<>>, <<>>, {})
        ELSE \E sorted \in SortedByDate(kept) :
                OverviewEnds(ctx, s, e, "rendered", btc, raw, kept, sorted,
                             Normalized(sorted), ZeroDivisors(sorted))

\* the range is valid: bitcoin id, alignment query, table
OverviewRange(ctx, s, e) ==
    \E c1 \in get_bitcoin_coin_id(ctx) :
        IF c1.halted
        THEN OverviewEnds(c1, s, e, "halted", <<>>, <<>>, <<>>, <<>>, <<>>, {})
        ELSE LET btc == c1.fcache[Call("get_bitcoin_coin_id", <<>>)]
             IN  IF btc = <<>>
                 THEN OverviewEnds(
                         run_query(ErrorStop(c1, "error: could not find Bitcoin"),
                                   DistinctCoinsQuery, CoinIds(crypto_prices)),
                         s, e, "no_bitcoin", <<>>, <<>>, <<>>, <<>>, <<>>, {})
                 ELSE LET c2 == read_sql_query(c1, AlignmentQuery(s, e, btc[1]))
                      IN  IF c2.halted
                          THEN OverviewEnds(c2, s, e, "halted", btc, <<>>, <<>>, <<>>, <<>>, {})
                          ELSE \E raw \in AlignmentResults(crypto_prices, oil_prices,
                                                           stock_prices, s, e, btc[1]) :
                                  OverviewTable(c2, s, e, btc, raw)

\* the overview page if the range were checked after the bitcoin-id lookup
RenderOverviewLateCheck ==
    LET c1 == get_db_date_range(Context(cache, fcache))
        range == c1.fcache[Call("get_db_date_range", <<>>)]
    IN  \E s, e \in range[1]..range[2] :
            IF s > e
            THEN \E c2 \in get_bitcoin_coin_id(c1) :
                    OverviewEnds(ErrorStop(c2, "error: start date must be before end date"),
                                 s, e, "range_error", <<>>, <<>>, <<>>, <<>>, <<>>, {})
            ELSE OverviewRange(c1, s, e)

\* one render of the overview page, with the date inputs at s and e
RenderOverview ==
    LET c1 == get_db_date_range(Context(cache, fcache))
        range == c1.fcache[Call("get_db_date_range", <<>>)]
    IN  IF c1.stopping
        \* a stop swallowed in get_db_date_range is raised again by st.columns
        THEN OverviewEnds([c1 EXCEPT !.halted = TRUE], 0, 0, "halted",
                          <<>>, <<>>, <<>>, <<>>, <<>>, {})
        ELSE
        \E s, e \in range[1]..range[2] :
            IF s > e
            THEN OverviewEnds(ErrorStop(c1, "error: start date must be before end date"),
                              s, e, "range_error", <<>>, <<>>, <<>>, <<>>, <<>>, {})
            ELSE OverviewRange(c1, s, e)

-----------------------------------------------------------------------------
(* PAGE 3 - Top 3 Crypto Analysis: get_top3 and get_coin_display_names *)

LatestPriceQuery == Query("SELECT coin_id, price_usd ... WHERE date(date) = (SELECT MAX(date(date)) ...) GROUP BY coin_id ORDER BY price_usd DESC LIMIT 3", <<>>)

\* the rows of coin c on any date
AllRowsOf(cp, c) == RowsWhere(cp, LAMBDA r : r.coin_id = c)

\* the rows of coin c on its own most recent date
LatestRows(cp, c) ==
    LET mine == RowsWhere(cp, LAMBDA r : r.coin_id = c)
        last == Max({DateOf(cp[i].date) : i \in mine})
    IN  {i \in mine : DateOf(cp[i].date) = last}

\* the tables the latest-price statement may return.  GROUP BY coin_id with the
\* bare column price_usd: SQLite takes it from any one row of the group
LatestPriceResults(cp) ==
    LET prices(c) == {cp[i].price_usd : i \in LatestRows(cp, c)}
        picks == {g \in [CoinIds(cp) -> {cp[i].price_usd : i \in DOMAIN cp}] :
                     \A c \in CoinIds(cp) : g[c] \in prices(c)}
        groups(g) == {[coin_id |-> c, price_usd |-> g[c]] : c \in CoinIds(cp)}
    IN  UNION {
            {Limit(f, 3) :
                f \in Orderings(groups(g),
                                {p \in groups(g) \X groups(g) :
                                    DescBefore(p[1].price_usd, p[2].price_usd)})} :
            g \in picks}

\* the contexts a call of get_top3() may leave
get_top3(ctx) ==
    LET call == Call("get_top3", <<>>)
        ids(t) == [i \in DOMAIN t |-> t[i].coin_id]
        fallback(c1) ==
            {IF c2.halted THEN c2
             ELSE [c2 EXCEPT !.fcache = Put(@, call, ids(c2.cache[TopAvgQuery(3)]))] :
             c2 \in run_query_any(c1, TopAvgQuery(3), AvgRankingResults(crypto_prices, 3))}
    IN  IF call \in DOMAIN ctx.fcache THEN {ctx}
        ELSE UNION {
                IF c1.halted THEN {c1}
                ELSE IF Len(c1.cache[LatestPriceQuery]) < 3 THEN fallback(c1)
                ELSE {[c1 EXCEPT !.fcache = Put(@, call, ids(c1.cache[LatestPriceQuery]))]} :
                c1 \in run_query_any(ctx, LatestPriceQuery, LatestPriceResults(crypto_prices))}

DisplayNamesQuery(params) == Query("SELECT id, name, symbol FROM cryptocurrencies WHERE LOWER(id) IN (?, ...)", params)

\* the tables the metadata statement may return (no ORDER BY)
DisplayNamesResults(meta, params) ==
    {[i \in DOMAIN f |-> meta[f[i]]] :
        f \in Orderings(RowsWhere(meta, LAMBDA r :
                            \E k \in DOMAIN params : Lower(r.id) = params[k]),
                        {})}

\* f"{row['name']} ({row['symbol'].upper()})"
MetaLabel(row) == row.name \o <<" ", "(">> \o Upper(row.symbol) \o <<")">>

\* for _, row in df.iterrows(): mapping[row["id"]] = ...
RECURSIVE MappingOf(_)
MappingOf(rows) ==
    IF rows = <<>> THEN <<>>
    ELSE LET n == Len(rows)
         IN  Put(MappingOf(SubSeq(rows, 1, n - 1)), rows[n].id, MetaLabel(rows[n]))

\* the contexts a call of get_coin_display_names(coin_ids) may leave
get_coin_display_names(ctx, coin_ids) ==
    LET call == Call("get_coin_display_names", coin_ids)
        params == [i \in DOMAIN coin_ids |-> Lower(coin_ids[i])]
        q == DisplayNamesQuery(params)
    IN  IF call \in DOMAIN ctx.fcache THEN {ctx}
        ELSE {IF c1.halted THEN c1
              ELSE [c1 EXCEPT !.fcache = Put(@, call, MappingOf(c1.cache[q]))] :
              c1 \in run_query_any(ctx, q, DisplayNamesResults(cryptocurrencies, params))}

\* the labels if the fallback were the raw id
RawLabels(names, ids) ==
    [i \in DOMAIN ids |-> IF ids[i] \in DOMAIN names THEN names[ids[i]] ELSE ids[i]]

\* [name_map.get(c, c.title()) for c in top3]
DisplayLabels(names, ids) ==
    [i \in DOMAIN ids |-> IF ids[i] \in DOMAIN names THEN names[ids[i]] ELSE Title(ids[i])]

\* dict(zip(display_labels, top3))
RECURSIVE ZipDict(_, _)
ZipDict(labels, ids) ==
    IF labels = <<>> THEN <<>>
    ELSE LET n == Len(labels)
         IN  Put(ZipDict(SubSeq(labels, 1, n - 1), SubSeq(ids, 1, n - 1)), labels[n], ids[n])

CoinSeriesQuery(c, sd, ed) == Query("SELECT date(date) AS date, price_usd FROM crypto_prices WHERE coin_id=? AND date(date) BETWEEN ? AND ? ORDER BY date(date)", <<c, sd, ed>>)

\* the tables the price-series statement may return
CoinSeriesResults(cp, c, sd, ed) ==
    LET rows == RowsWhere(cp, LAMBDA r : r.coin_id = c /\ Between(r.date, sd, ed))
    IN  {[i \in DOMAIN f |-> [date |-> DateOf(cp[f[i]].date), price_usd |-> cp[f[i]].price_usd]] :
            f \in Orderings(rows, {p \in rows \X rows :
                                      DateOf(cp[p[1]].date) < DateOf(cp[p[2]].date)})}

\* what a render leaves in the variables of the page that was not rendered
NoOverview ==
    /\ btc_id' = <<>>
    /\ raw_df' = <<>>
    /\ df' = <<>>
    /\ sorted_df' = <<>>
    /\ plot_df' = <<>>
    /\ zero_div' = {}

\* the end of a top-3 render
Top3Ends(ctx, s, e, how, top, names, labels, l2i, c, series) ==
    /\ page' = "top3"
    /\ RenderEnds(ctx)
    /\ outcome' = how
    /\ start_date' = s
    /\ end_date' = e
    /\ top3' = top
    /\ name_map' = names
    /\ display_labels' = labels
    /\ label_to_id' = l2i
    /\ coin' = c
    /\ cdf' = series
    /\ NoOverview
    /\ NoRunner

\* the filters are drawn: range check, price series, statistics
Top3Filters(ctx, s, e, top, names, labels, l2i, c) ==
    IF s > e
    THEN Top3Ends(ErrorStop(ctx, "error: invalid date range"), s, e, "range_error",
                  top, names, labels, l2i, <<c>>, <<>>)
    ELSE \E c1 \in run_query_any(ctx, CoinSeriesQuery(c, s, e),
                                 CoinSeriesResults(crypto_prices, c, s, e)) :
            IF c1.halted
            THEN Top3Ends(c1, s, e, "halted", top, names, labels, l2i, <<c>>, <<>>)
            ELSE LET series == c1.cache[CoinSeriesQuery(c, s, e)]
                 IN  IF series = <<>>
                     THEN Top3Ends([c1 EXCEPT !.msgs = Append(@, "warning: no data for selected coin")],
                                   s, e, "no_data", top, names, labels, l2i, <<c>>, series)
                     \* f"${val:,.2f}" of None: a column of NULLs only is read as objects
                     ELSE IF \A i \in DOMAIN series : IsNull(series[i].price_usd)
                     THEN Top3Ends(c1, s, e, "exception", top, names, labels, l2i, <<c>>, series)
                     ELSE Top3Ends(c1, s, e, "rendered", top, names, labels, l2i, <<c>>, series)

\* one render of the top-3 page, with the coin selector at its k-th label and
\* the date inputs at s and e
RenderTop3(k, s, e) ==
    \E c1 \in get_top3(Context(cache, fcache)) :
        IF c1.halted
        THEN Top3Ends(c1, 0, 0, "halted", <<>>, <<>>, <<>>, <<>>, <<>>, <<>>)
        ELSE LET top == c1.fcache[Call("get_top3", <<>>)]
             IN  IF top = <<>>
                 THEN Top3Ends([c1 EXCEPT !.msgs = Append(@, "warning: no cryptocurrency data found")],
                               0, 0, "no_crypto", top, <<>>, <<>>, <<>>, <<>>, <<>>)
                 ELSE \E c2 \in get_coin_display_names(c1, top) :
                         IF c2.halted
                         THEN Top3Ends(c2, 0, 0, "halted", top, <<>>, <<>>, <<>>, <<>>, <<>>)
                         ELSE LET names == c2.fcache[Call("get_coin_display_names", top)]
                                  labels == DisplayLabels(names, top)
                                  l2i == ZipDict(labels, top)
                              IN  /\ k \in DOMAIN labels
                                  /\ Top3Filters(get_db_date_range(c2), s, e, top, names,
                                                 labels, l2i, l2i[labels[k]])

-----------------------------------------------------------------------------
(* PAGE 2 - SQL Query Runner *)

\* SQL ROUND(x, 2) of a non-negative number
Round2(x) ==
    IF x.k # "num" THEN x
    ELSE [k |-> "num", n |-> (200 * x.n + x.d) \div (2 * x.d), d |-> 100]

\* the queries of QUERY_GROUPS that the selector offers here: 9 and 14 of the 30
Catalog ==
    <<[name |-> "9. Coin With Highest Average Price (All Time)",
       sql |-> "SELECT coin_id, ROUND(AVG(price_usd), 2) AS avg_price FROM crypto_prices GROUP BY coin_id ORDER BY avg_price DESC LIMIT 1;"],
      [name |-> "14. Lowest Oil Price (All Time)",
       sql |-> "SELECT ROUND(MIN(price), 2) AS min_oil_price FROM oil_prices;"]>>

\* PREDEFINED[selected_name] as run_query receives it
CatalogQuery(i) == Query(Catalog[i].sql, <<>>)

\* MIN(price): NULLs are skipped, NULL when none is left
MinPrice(oil) ==
    LET nn == {i \in DOMAIN oil : ~IsNull(oil[i].price)}
    IN  IF nn = {} THEN NULL
        ELSE oil[CHOOSE i \in nn : \A j \in nn : oil[i].price.n <= oil[j].price.n].price

\* the tables the i-th catalog statement may return
CatalogResults(i) ==
    IF i = 1
    THEN LET groups == {[coin_id |-> c,
                         avg_price |-> Round2(Avg(crypto_prices,
                                                  RowsWhere(crypto_prices,
                                                            LAMBDA r : r.coin_id = c),
                                                  "price_usd"))] :
                        c \in CoinIds(crypto_prices)}
         IN  {Limit(f, 1) :
                 f \in Orderings(groups, {p \in groups \X groups :
                                             DescBefore(p[1].avg_price, p[2].avg_price)})}
    ELSE {<<[min_oil_price |-> Round2(MinPrice(oil_prices))]>>}

\* run_query when the statement raises a store-level error (sqlite3 / pandas
\* DatabaseError): executed, nothing memoized
run_query_raises(ctx, q) == [ctx EXCEPT !.log = Append(@, q), !.runs = Append(@, q)]

\* the end of a render of the query runner
RunnerEnds(ctx, i, how, shown) ==
    /\ page' = "runner"
    /\ RenderEnds(ctx)
    /\ outcome' = how
    /\ selected_name' = Catalog[i].name
    /\ result' = shown
    /\ start_date' = 0
    /\ end_date' = 0
    /\ NoOverview
    /\ NoTop3

\* the query runner without the try/except around run_query: the error ends
\* the render
RenderRunnerUncaught(i, pressed, raises) ==
    LET ctx == Context(cache, fcache)
        q == CatalogQuery(i)
    IN  IF ~pressed
        THEN RunnerEnds(ctx, i, "selected", <<>>)
        ELSE IF q \in DOMAIN cache
        THEN RunnerEnds(ctx, i, "ran", <<cache[q]>>)
        ELSE IF ~db_exists
        THEN RunnerEnds(run_query(ctx, q, <<>>), i, "halted", <<>>)
        ELSE IF raises
        THEN RunnerEnds([run_query_raises(ctx, q) EXCEPT !.halted = TRUE],
                        i, "exception", <<>>)
        ELSE \E c1 \in run_query_any(ctx, q, CatalogResults(i)) :
                RunnerEnds(c1, i, "ran", <<c1.cache[q]>>)

\* one render of the query runner with the i-th query selected; pressed: the
\* Run Query button was clicked; raises: the store raises on this execution
RenderRunner(i, pressed, raises) ==
    LET ctx == Context(cache, fcache)
        q == CatalogQuery(i)
    IN  IF ~pressed
        THEN RunnerEnds(ctx, i, "selected", <<>>)
        ELSE IF q \in DOMAIN cache
        THEN RunnerEnds(ctx, i, "ran", <<cache[q]>>)
        \* the stop raised by get_conn is not an Exception: the handler lets it pass
        ELSE IF ~db_exists
        THEN RunnerEnds(run_query(ctx, q, <<>>), i, "halted", <<>>)
        ELSE IF raises
        THEN RunnerEnds([run_query_raises(ctx, q) EXCEPT
                             !.msgs = Append(@, "error: Query error")],
                        i, "query_error", <<>>)
        ELSE \E c1 \in run_query_any(ctx, q, CatalogResults(i)) :
                RunnerEnds(c1, i, "ran", <<c1.cache[q]>>)

-----------------------------------------------------------------------------
(* Stores *)

Cells == {NULL} \cup {Num(v) : v \in Prices}

StoredDates == {[day |-> d, time |-> t] : d \in Days, t \in Times}

ETH == <<"e", "t", "h">>

\* the rows the price tables are filled from, each with its table
PriceRows ==
    {[tab |-> "crypto_prices", row |-> [coin_id |-> c, date |-> ts, price_usd |-> p]] :
        c \in {BTC, ETH}, ts \in StoredDates, p \in Cells}
    \cup {[tab |-> "oil_prices", row |-> [date |-> ts, price |-> p]] :
        ts \in StoredDates, p \in Cells}
    \cup {[tab |-> "stock_prices", row |-> [ticker |-> k, date |-> ts, close |-> p]] :
        k \in {GSPC, NSEI}, ts \in StoredDates, p \in Cells}

RECURSIVE SetToSeq(_)
SetToSeq(S) ==
    IF S = {} THEN <<>>
    ELSE LET x == CHOOSE x \in S : TRUE IN <<x>> \o SetToSeq(S \ {x})

\* the multisets of n elements of the sequence u, each as a sequence in u's order
RECURSIVE Multisets(_, _)
Multisets(u, n) ==
    IF n = 0 THEN {<<>>}
    ELSE LET rest == Multisets(u, n - 1)
         IN  UNION {{<<i>> \o m : m \in {x \in rest : x = <<>> \/ i <= x[1]}} :
                    i \in 1..Len(u)}

\* the rows of table tab in the multiset m over u
TableOf(u, m, tab) ==
    LET picked == SelectSeq(m, LAMBDA i : u[i].tab = tab)
    IN  [i \in DOMAIN picked |-> u[picked[i]].row]

\* the multisets of at most n elements of u
Stores(u, n) == UNION {Multisets(u, k) : k \in 0..n}

PriceRowSeq == SetToSeq(PriceRows)

\* a fresh process: nothing memoized, nothing rendered
FreshProcess ==
    /\ cache = <<>>
    /\ fcache = <<>>
    /\ page = "none"
    /\ query_log = <<>>
    /\ messages = <<>>
    /\ outcome = "none"
    /\ start_date = 0
    /\ end_date = 0
    /\ btc_id = <<>>
    /\ raw_df = <<>>
    /\ df = <<>>
    /\ sorted_df = <<>>
    /\ plot_df = <<>>
    /\ zero_div = {}
    /\ top3 = <<>>
    /\ name_map = <<>>
    /\ display_labels = <<>>
    /\ label_to_id = <<>>
    /\ coin = <<>>
    /\ cdf = <<>>
    /\ selected_name = ""
    /\ result = <<>>
    /\ conn_failures = 0
    /\ executions = <<>>

\* what get_db_date_range() returns over the store as it is
DbRange ==
    LET ranges == {DateRangeOf(crypto_prices), DateRangeOf(oil_prices),
                   DateRangeOf(stock_prices)} \ {<<>>}
    IN  IF ~db_exists \/ ranges = {} THEN DefaultRange
        ELSE <<Min({r[1] : r \in ranges}), Max({r[2] : r \in ranges})>>

-----------------------------------------------------------------------------
(* The overview's first render over every store of at most MaxRows price rows *)

InitAlign ==
    /\ db_exists = TRUE
    /\ stop_persists = FALSE
    /\ \E m \in Stores(PriceRowSeq, MaxRows) :
        /\ crypto_prices = TableOf(PriceRowSeq, m, "crypto_prices")
        /\ oil_prices = TableOf(PriceRowSeq, m, "oil_prices")
        /\ stock_prices = TableOf(PriceRowSeq, m, "stock_prices")
    /\ cryptocurrencies = <<>>
    /\ FreshProcess

FirstOverview == page = "none" /\ RenderOverview

NextAlign == FirstOverview

SpecAlign == InitAlign /\ [][NextAlign]_vars

-----------------------------------------------------------------------------
(* The top-3 page's first render (widgets at their defaults) over every       *)
(* crypto_prices of at most MaxCoinRows rows *)

\* rows of crypto_prices (top-3 inputs)
MaxCoinRows == 4

TON == <<"t", "o", "n">>

BNB == <<"b", "n", "b">>

TopCoins == <<BTC, ETH, TON, BNB>>

\* the rows of the c-th coin of TopCoins
CoinRows(c) ==
    {[tab |-> "crypto_prices",
      row |-> [coin_id |-> TopCoins[c], date |-> [day |-> d, time |-> "00:00"],
               price_usd |-> p]] :
        d \in Days, p \in {NULL, Num(1), Num(2)}}

\* the rows of crypto_prices, coin by coin in the order of TopCoins
CoinRowSeq ==
    SetToSeq(CoinRows(1)) \o SetToSeq(CoinRows(2)) \o SetToSeq(CoinRows(3))
        \o SetToSeq(CoinRows(4))

CoinIndex(j) == CHOOSE c \in DOMAIN TopCoins : CoinRowSeq[j].row.coin_id = TopCoins[c]

\* the selector reads a coin id only to compare it with another: of the stores
\* that differ by a renaming of the coins, the one whose coins are the first of
\* TopCoins stands for all, so a row follows the rows m only if its coin is one
\* of theirs or the next of TopCoins
Follows(m, j) ==
    IF m = <<>> THEN CoinIndex(j) = 1
    ELSE m[Len(m)] <= j /\ CoinIndex(j) <= CoinIndex(m[Len(m)]) + 1

\* the multisets of at most n rows of CoinRowSeq whose coins are the first of TopCoins
RECURSIVE CoinStores(_)
CoinStores(n) ==
    IF n = 0 THEN {<<>>}
    ELSE LET shorter == CoinStores(n - 1)
         IN  shorter \cup
             UNION {{Append(m, j) : j \in {i \in DOMAIN CoinRowSeq : Follows(m, i)}} :
                    m \in {x \in shorter : Len(x) = n - 1}}

InitTop ==
    /\ db_exists = TRUE
    /\ stop_persists = FALSE
    /\ \E m \in CoinStores(MaxCoinRows) :
        crypto_prices = TableOf(CoinRowSeq, m, "crypto_prices")
    /\ oil_prices = <<>>
    /\ stock_prices = <<>>
    /\ cryptocurrencies = <<>>
    /\ FreshProcess

\* st.selectbox and st.date_input before any interaction: the first label, db_min, db_max
FirstTop3 == page = "none" /\ RenderTop3(1, DbRange[1], DbRange[2])

NextTop == FirstTop3

SpecTop == InitTop /\ [][NextTop]_vars

-----------------------------------------------------------------------------
(* The top-3 page's first render over coin ids and metadata ids that differ in  *)
(* letter case: at most MaxNameRows rows in crypto_prices and cryptocurrencies   *)

MaxNameRows == 3

NameRows ==
    {[tab |-> "crypto_prices",
      row |-> [coin_id |-> c, date |-> [day |-> 1, time |-> "00:00"], price_usd |-> Num(p)]] :
        c \in {BTC, <<"B", "t", "c">>, ETH, <<"b", "i", "t", "-", "c", "o", "i", "n">>},
        p \in {1, 2}}
    \cup {[tab |-> "cryptocurrencies", row |-> [id |-> i, name |-> n, symbol |-> BTC]] :
        i \in {BTC, <<"B", "T", "C">>, ETH},
        n \in {<<"B", "i", "t">>, <<"C", "o", "i", "n">>}}

NameRowSeq == SetToSeq(NameRows)

InitNames ==
    /\ db_exists = TRUE
    /\ stop_persists = FALSE
    /\ \E m \in Stores(NameRowSeq, MaxNameRows) :
        /\ crypto_prices = TableOf(NameRowSeq, m, "crypto_prices")
        /\ cryptocurrencies = TableOf(NameRowSeq, m, "cryptocurrencies")
    /\ oil_prices = <<>>
    /\ stock_prices = <<>>
    /\ FreshProcess

SpecNames == InitNames /\ [][NextTop]_vars

-----------------------------------------------------------------------------
(* A process: renders of the pages one after another, the caches kept *)

MaxSessionRows == 1

SessionRows ==
    {[tab |-> "crypto_prices",
      row |-> [coin_id |-> BTC, date |-> [day |-> 1, time |-> "00:00"], price_usd |-> Num(1)]],
     [tab |-> "oil_prices", row |-> [date |-> [day |-> 2, time |-> "00:00"], price |-> Num(1)]],
     [tab |-> "stock_prices",
      row |-> [ticker |-> GSPC, date |-> [day |-> 2, time |-> "00:00"], close |-> Num(1)]],
     [tab |-> "cryptocurrencies",
      row |-> [id |-> BTC, name |-> <<"C", "o", "i", "n">>, symbol |-> BTC]]}

SessionRowSeq == SetToSeq(SessionRows)

Init ==
    /\ db_exists \in BOOLEAN
    /\ stop_persists \in (IF db_exists THEN {FALSE} ELSE BOOLEAN)
    /\ \E m \in Stores(SessionRowSeq, MaxSessionRows) :
        /\ crypto_prices = TableOf(SessionRowSeq, m, "crypto_prices")
        /\ oil_prices = TableOf(SessionRowSeq, m, "oil_prices")
        /\ stock_prices = TableOf(SessionRowSeq, m, "stock_prices")
        /\ cryptocurrencies = TableOf(SessionRowSeq, m, "cryptocurrencies")
    /\ FreshProcess

\* the coin selector holds at most three labels; the date inputs take any day
SelectTop3 == \E k \in 1..3, s, e \in Days : RenderTop3(k, s, e)

\* the query selector and the Run Query button
RunCatalogQuery ==
    \E i \in DOMAIN Catalog, pressed, raises \in BOOLEAN : RenderRunner(i, pressed, raises)

Next ==
    \/ RenderOverview
    \/ SelectTop3
    \/ RunCatalogQuery

Spec == Init /\ [][Next]_vars

-----------------------------------------------------------------------------
(* Claims about the alignment query and the passes over its result *)

\* the alignment query of this render has returned
Aligned == page = "overview" /\ outcome \in {"rendered", "no_data"}

\* the dates that occur in a source table within the chosen range
SourceDatesInRange ==
    {d \in Days :
        /\ start_date <= d /\ d <= end_date
        /\ \/ \E i \in DOMAIN crypto_prices : crypto_prices[i].date.day = d
           \/ \E i \in DOMAIN oil_prices : oil_prices[i].date.day = d
           \/ \E i \in DOMAIN stock_prices : stock_prices[i].date.day = d}

\* how many rows of table t equal r
Count(t, r) == Cardinality({i \in DOMAIN t : t[i] = r})

\* C2: every date that occurs in a source table within [s,e] appears exactly once
\* in the date column of the rows the alignment query returns
C2_CalendarExactlyOnce ==
    Aligned =>
        \A d \in SourceDatesInRange :
            Cardinality({i \in DOMAIN raw_df : raw_df[i].date = d}) = 1

\* C3: the table used for the metrics, the snapshot (df) and the chart (sorted_df)
\* has no row whose four series cells are all null, and keeps every returned row
\* that has a non-null cell, as often as it was returned and with its cells unchanged
C3_NoAllNullRows ==
    Aligned =>
        /\ \A i \in DOMAIN df : ~AllNull(df[i])
        /\ \A i \in DOMAIN raw_df :
              ~AllNull(raw_df[i]) => Count(df, raw_df[i]) = Count(raw_df, raw_df[i])
        /\ outcome = "rendered" =>
              /\ Len(sorted_df) = Len(df)
              /\ \A i \in DOMAIN df : Count(sorted_df, df[i]) = Count(df, df[i])

\* C3's case: an all-null row was returned and dropped, and a row with a null
\* cell beside a non-null one was kept
C3_Witness ==
    /\ Aligned
    /\ \E i \in DOMAIN raw_df : AllNull(raw_df[i])
    /\ \E i \in DOMAIN df : \E a, b \in SeriesCols : IsNull(df[i][a]) /\ ~IsNull(df[i][b])

\* row i is the chronologically first row of sorted_df with a value in column c
FirstNonNull(i, c) ==
    /\ ~IsNull(sorted_df[i][c])
    /\ \A j \in DOMAIN sorted_df : j < i => IsNull(sorted_df[j][c])

\* C4: after normalization every column with a value holds exactly 100 at its
\* chronologically first non-null row, whatever that first value is
C4_AnchorIs100 ==
    (page = "overview" /\ outcome = "rendered") =>
        \A c \in SeriesCols : \A i \in DOMAIN sorted_df :
            FirstNonNull(i, c) => IsNumber(plot_df[i][c], 100)

\* C5: a column without any value stays entirely null, and the pass never
\* divides by zero
C5_NoDivisionByZero ==
    (page = "overview" /\ outcome = "rendered") =>
        /\ \A c \in SeriesCols :
              (\A i \in DOMAIN sorted_df : IsNull(sorted_df[i][c]))
                  => \A i \in DOMAIN plot_df : IsNull(plot_df[i][c])
        /\ zero_div = {}

\* C5's case: a column without any value was normalized beside one with values
C5_Witness ==
    /\ page = "overview" /\ outcome = "rendered"
    /\ \E a, b \in SeriesCols :
          /\ \A i \in DOMAIN sorted_df : IsNull(sorted_df[i][a])
          /\ \E i \in DOMAIN sorted_df : ~IsNull(sorted_df[i][b])

-----------------------------------------------------------------------------
(* Claims about the top-3 selector *)

\* get_top3() has returned in this render
Selected3 == page = "top3" /\ outcome # "halted"

\* the prices stored for coin c on the most recent date that c has a row for
LatestPrices(c) ==
    LET mine == {i \in DOMAIN crypto_prices : crypto_prices[i].coin_id = c}
    IN  {crypto_prices[i].price_usd :
            i \in {i \in mine : \A j \in mine :
                      crypto_prices[j].date.day <= crypto_prices[i].date.day}}

\* the coins whose most recent price is non-null in every row of that date
Determinate == {c \in CoinIds(crypto_prices) : \A p \in LatestPrices(c) : ~IsNull(p)}

\* the coins whose most recent price is non-null in some row of that date
MaybeDeterminate == {c \in CoinIds(crypto_prices) : \E p \in LatestPrices(c) : ~IsNull(p)}

\* the statement of the fallback was executed in this render
FallbackUsed == \E i \in DOMAIN query_log : query_log[i] = TopAvgQuery(3)

\* C6: the selector returns at most 3 coin ids, and as many ids as there are
\* distinct coins in crypto_prices when these are fewer than 3 (none: the empty list)
C6_AtMostThree ==
    Selected3 =>
        /\ Len(top3) <= 3
        /\ Cardinality(CoinIds(crypto_prices)) < 3
              => Len(top3) = Cardinality(CoinIds(crypto_prices))

\* C6's case: two distinct coins in several rows, both returned
C6_Witness ==
    /\ Selected3
    /\ Cardinality(CoinIds(crypto_prices)) = 2
    /\ Len(top3) = 2

\* the lists of ids of the ranking of all coins by all-time average price
AverageRankings ==
    {[i \in DOMAIN t |-> t[i].coin_id] : t \in AvgRankingResults(crypto_prices, 3)}

\* C7: when fewer than 3 coins have a non-null most recent price, the result is
\* the ranking of all coins by all-time average price, descending
C7_FallbackExclusive ==
    (Selected3 /\ Cardinality(MaybeDeterminate) < 3) => top3 \in AverageRankings

\* C7's case where the code agrees: fewer than 3 coins at all, the fallback ran
C7_Witness ==
    /\ Selected3
    /\ Cardinality(MaybeDeterminate) < 3
    /\ FallbackUsed
    /\ top3 # <<>>
    /\ top3 \in AverageRankings

\* C8: when at least 3 coins have a non-null most recent price, the result is
\* three coins with a non-null most recent price, in descending order of it, no
\* coin left out has a higher one, and the fallback is not used
C8_LatestPriceRanking ==
    (Selected3 /\ Cardinality(Determinate) >= 3) =>
        /\ Len(top3) = 3
        /\ ~FallbackUsed
        /\ \E g \in [CoinIds(crypto_prices) ->
                        {crypto_prices[i].price_usd : i \in DOMAIN crypto_prices}] :
              /\ \A c \in CoinIds(crypto_prices) : g[c] \in LatestPrices(c)
              /\ \A i \in DOMAIN top3 : ~IsNull(g[top3[i]])
              /\ \A i, j \in DOMAIN top3 : i < j => g[top3[i]].n >= g[top3[j]].n
              /\ \A c \in CoinIds(crypto_prices) :
                    (~IsNull(g[c]) /\ \A i \in DOMAIN top3 : top3[i] # c)
                        => \A i \in DOMAIN top3 : g[top3[i]].n >= g[c].n

\* C8's case: three coins with distinct ranks among four, the fourth's most
\* recent price null although it has the highest earlier price
C8_Witness ==
    /\ Selected3
    /\ Cardinality(Determinate) = 3
    /\ \E c \in CoinIds(crypto_prices) :
          /\ LatestPrices(c) = {NULL}
          /\ \A i \in DOMAIN top3 : top3[i] # c
    /\ Len(top3) = 3
    /\ LatestPrices(top3[1]) = {Num(2)}
    /\ LatestPrices(top3[3]) = {Num(1)}

-----------------------------------------------------------------------------
(* Claims about display-name resolution *)

\* the labels of the coin selector have been computed in this render
Labelled == page = "top3" /\ outcome \notin {"halted", "no_crypto"}

\* the metadata rows whose id is that of coin c up to letter case
MetaRowsOf(c) ==
    {i \in DOMAIN cryptocurrencies : Lower(cryptocurrencies[i].id) = Lower(c)}

\* the metadata rows whose id is that of coin c letter for letter
ExactMetaRowsOf(c) == {i \in DOMAIN cryptocurrencies : cryptocurrencies[i].id = c}

\* the "Name (SYMBOL)" labels of the metadata rows rows
LabelsOf(rows) ==
    {cryptocurrencies[i].name \o <<" ", "(">> \o Upper(cryptocurrencies[i].symbol) \o <<")">> :
        i \in rows}

\* C9: a coin without a metadata row is labelled by its title-cased id, every
\* coin gets a label, and a coin with a row of exactly its id keeps that row's label
C9_TitleFallback ==
    Labelled =>
        /\ Len(display_labels) = Len(top3)
        /\ \A i \in DOMAIN top3 :
              /\ MetaRowsOf(top3[i]) = {} => display_labels[i] = Title(top3[i])
              /\ ExactMetaRowsOf(top3[i]) # {}
                    => display_labels[i] \in LabelsOf(ExactMetaRowsOf(top3[i]))

\* C9's case: a coin without a metadata row, whose title-cased id differs from
\* the id, resolved in one call with a coin that has a row
C9_Witness ==
    /\ Labelled
    /\ \E i, j \in DOMAIN top3 :
          /\ MetaRowsOf(top3[i]) = {}
          /\ display_labels[i] = Title(top3[i])
          /\ Title(top3[i]) # top3[i]
          /\ ExactMetaRowsOf(top3[j]) # {}
          /\ display_labels[j] \in LabelsOf(ExactMetaRowsOf(top3[j]))

\* C10: a coin whose id equals a metadata id up to letter case is labelled
\* "Name (SYMBOL)" from such a row
C10_CaseInsensitiveMatch ==
    Labelled =>
        \A i \in DOMAIN top3 :
            MetaRowsOf(top3[i]) # {} => display_labels[i] \in LabelsOf(MetaRowsOf(top3[i]))

\* C10's case where the code agrees: the ids are equal letter for letter
C10_Witness ==
    /\ Labelled
    /\ \E i \in DOMAIN top3 :
          /\ ExactMetaRowsOf(top3[i]) # {}
          /\ display_labels[i] \in LabelsOf(MetaRowsOf(top3[i]))

-----------------------------------------------------------------------------
(* Claims about the rejection of a range whose start is after its end *)

Rejected == outcome = "range_error"

\* the statements of get_db_date_range
RangeProbes ==
    {DateRangeQuery(t) : t \in {"crypto_prices", "oil_prices", "stock_prices"}}

\* the statements of get_top3 and get_coin_display_names
SelectorQueries ==
    {LatestPriceQuery, TopAvgQuery(3)}
        \cup {DisplayNamesQuery([i \in DOMAIN top3 |-> Lower(top3[i])])}

-----------------------------------------------------------------------------
(* Claims about run_query's memoization *)

\* C11 as stated: no (sql, params) pair is executed by run_query more than once
\* in the process
C11_ExecutedAtMostOnce == \A q \in DOMAIN executions : executions[q] <= 1

\* C11: a pair whose execution has returned a result stays memoized with that
\* result and is not executed again in any later render, and no render executes
\* a statement twice; a pair whose execution raised is not memoized
C11_MemoizedNotReexecuted ==
    [][/\ \A q \in DOMAIN cache :
             /\ q \in DOMAIN cache'
             /\ cache'[q] = cache[q]
             /\ \A i \in DOMAIN query_log' : query_log'[i] # q
       /\ \A i, j \in DOMAIN query_log' : i < j => query_log'[i] # query_log'[j]
       /\ \A q \in DOMAIN cache' : q \in DOMAIN executions' /\ executions'[q] >= 1]_vars

\* C11's case: Run Query on a pair executed once before, answered without a
\* statement reaching the store
C11_Witness ==
    /\ page = "runner" /\ outcome = "ran"
    /\ query_log = <<>>
    /\ \E i \in DOMAIN Catalog :
          /\ selected_name = Catalog[i].name
          /\ executions[CatalogQuery(i)] = 1
          /\ result = <<cache[CatalogQuery(i)]>>

-----------------------------------------------------------------------------
(* Claims about the missing store file *)

\* get_conn() found no file in this render
ConnectionFailed == page # "none" /\ conn_failures > 0

\* C12: when the store file is missing, the first failed connection of a render
\* shows the error and halts the render: the render ends halted with that one
\* error, no statement is executed, and no second connection is attempted
C12_MissingStoreHalts ==
    ConnectionFailed =>
        /\ outcome = "halted"
        /\ conn_failures = 1
        /\ messages = <<"error: database not found">>
        /\ query_log = <<>>

\* C12's case where the code agrees: the top-3 page or the query runner, halted
\* by its first connection
C12_Witness ==
    /\ ConnectionFailed
    /\ page \in {"top3", "runner"}
    /\ outcome = "halted"
    /\ conn_failures = 1
    /\ messages = <<"error: database not found">>

-----------------------------------------------------------------------------
(* Claims about the query runner *)

\* the statement of the selected catalog query was executed in this render and
\* raised: it reached the store and left nothing memoized
StoreErrorRaised ==
    /\ page = "runner"
    /\ \E i \in DOMAIN Catalog :
          /\ selected_name = Catalog[i].name
          /\ query_log = <<CatalogQuery(i)>>
          /\ CatalogQuery(i) \notin DOMAIN cache

\* C13: a store-level error of the selected catalog query ends the render with
\* the inline error message and without a halt, and every catalog query, the
\* failed one too, can be selected and run in the next render
C13_QueryErrorInline ==
    StoreErrorRaised =>
        /\ outcome = "query_error"
        /\ messages = <<"error: Query error">>
        /\ result = <<>>
        /\ \A j \in DOMAIN Catalog : ENABLED RenderRunner(j, TRUE, FALSE)

\* C13's case: the query that raised in an earlier render has been run again
\* and has returned, next to another query executed in between
C13_Witness ==
    /\ page = "runner" /\ outcome = "ran"
    /\ \E i, j \in DOMAIN Catalog :
          /\ i # j
          /\ selected_name = Catalog[i].name
          /\ query_log = <<CatalogQuery(i)>>
          /\ executions[CatalogQuery(i)] = 2
          /\ CatalogQuery(j) \in DOMAIN cache

-----------------------------------------------------------------------------
(* Claims about the store *)

\* C14: no step of the system changes the contents of crypto_prices,
\* oil_prices, stock_prices or cryptocurrencies
C14_StoreReadOnly ==
    [][UNCHANGED <<crypto_prices, oil_prices, stock_prices, cryptocurrencies>>]_vars

\* C14's case: a non-empty store after statements of all three pages were
\* executed, a catalog statement in this render
C14_Witness ==
    /\ page = "runner" /\ outcome = "ran"
    /\ query_log # <<>>
    /\ Len(crypto_prices) + Len(oil_prices) + Len(stock_prices)
          + Len(cryptocurrencies) > 0
    /\ LatestPriceQuery \in DOMAIN executions
    /\ BitcoinLikeQuery \in DOMAIN executions

-----------------------------------------------------------------------------
(* Claims about the coin selector's mapping *)

\* C15: the list get_top3 returns holds no coin id twice, and label_to_id has
\* one entry per returned coin, each label mapped to its coin
C15_OneEntryPerCoin ==
    Labelled =>
        /\ \A i, j \in DOMAIN top3 : i < j => top3[i] # top3[j]
        /\ Cardinality(DOMAIN label_to_id) = Len(top3)
        /\ \A i \in DOMAIN top3 : label_to_id[display_labels[i]] = top3[i]

\* the part of C15 about get_top3 alone
C15_DistinctIds == Labelled => \A i, j \in DOMAIN top3 : i < j => top3[i] # top3[j]

\* C15's case where the code agrees: three coins, three labels, three entries
C15_Witness ==
    /\ Labelled
    /\ Len(top3) = 3
    /\ Cardinality(DOMAIN label_to_id) = 3
    /\ \A i \in DOMAIN top3 : label_to_id[display_labels[i]] = top3[i]

=============================================================================
